---- MODULE Spec2Model ----
(***************************************************************************)
(* load_config (src/src/lib.rs, src/src/error.rs): a layered configuration *)
(* loader.  load_config joins the ordered sources into a figment, extracts *)
(* the configuration type T, and on a MissingField failure with a          *)
(* configured, not yet existing default file, writes the serialised        *)
(* T::default() there with create_default_file.                            *)
(*                                                                         *)
(* Abstractions.  T has the required scalar fields Fields.  A document is  *)
(* a function Fields -> value, Undef where the key is absent.  A file is a *)
(* sequence of lines <<key, value>>; a line whose key is not a field name  *)
(* stands for text the codec cannot parse.  The three SourceFile variants  *)
(* (Json, Toml, Yaml) run the same code up to the codec, so a file source  *)
(* is modelled by its path; where codecs differ (an empty file) both       *)
(* outcomes are possible.  Environment variables whose names are not field *)
(* names are ignored by extraction and are left out of env.  A path names  *)
(* the same file for figment and for Path::exists (no file of that name in *)
(* a parent of the working directory).  The arguments are chosen once: a   *)
(* program calls load_config with the same arguments on every run, and two *)
(* racing instances of it pass the same arguments.                         *)
(***************************************************************************)
EXTENDS Integers, Sequences, FiniteSets, TLC

\* ---- bounds --------------------------------------------------------------
MaxSources == 2
MaxCalls == 2

\* ---- universe ------------------------------------------------------------
Procs == {1, 2}
Paths == {1, 2}
Fields == {1, 2}
FieldOrder == <<1, 2>>

Undef == -1
BadVal == 0
DefaultVal == 1
EnvVal == 2
FileVal == 3
Garbage == <<0, 0>>
None == 0

VARIABLES
    env,                 \* process environment: Fields -> value or Undef
    fs,                  \* Paths -> [exists, bytes]
    dirs,                \* paths whose parent directory exists
    sources,             \* argument `sources`
    config_file_default, \* argument `config_file_default`: None or a path
    active,              \* the threads that call load_config
    pc,                  \* where each thread is in load_config
    idx,                 \* index of the next source to join
    fig,                 \* `fig`
    e,                   \* the error of fig.extract(), NoErr on success
    file_content,        \* `file_content` of create_default_file
    res,                 \* what create_default_file returned
    out,                 \* what load_config returns
    snap,                \* history: filesystem when the call started
    ncalls,              \* history: calls completed by each thread
    lastOut,             \* history: what the thread's previous call returned
    leftover             \* history: Paths -> file left by a failed write_all

vars == <<env, fs, dirs, sources, config_file_default, active, pc, idx, fig, e,
          file_content, res, out, snap, ncalls, lastOut, leftover>>

\* ---- data ----------------------------------------------------------------
NoFile == [exists |-> FALSE, bytes |-> <<>>]
EmptyDict == [f \in Fields |-> Undef]
NoErr == [kind |-> "None", at |-> {}]
NoOut == [kind |-> "None", config |-> EmptyDict, err |-> NoErr, filepath |-> None,
          stage |-> ""]

\* Source (lib.rs:199-206) and SourceFile (lib.rs:211-220)
ConfigDefault == [kind |-> "ConfigDefault", path |-> None]
Env == [kind |-> "Env", path |-> None]
File(p) == [kind |-> "File", path |-> p]
Source == {ConfigDefault, Env} \cup {File(p) : p \in Paths}
\* the lists of at most MaxSources sources, none listed twice
SourceLists ==
    {l \in UNION {[1..n -> Source] : n \in 0..MaxSources} :
        \A i, j \in 1..Len(l) : l[i] = l[j] => i = j}

\* Error (error.rs:5-15)
Ok(c) == [NoOut EXCEPT !.kind = "Ok", !.config = c]
Figment(err) == [NoOut EXCEPT !.kind = "Figment", !.err = err]
CreatedDefaultFile(p) == [NoOut EXCEPT !.kind = "CreatedDefaultFile", !.filepath = p]
\* Error::CreateDefaultFile(#[from] CreateDefaultFileError); only StdIo carries
\* the filepath
CreateDefaultFile(p, stage) ==
    [NoOut EXCEPT !.kind = "CreateDefaultFile", !.stage = stage,
                  !.filepath = IF stage = "serialize" THEN None ELSE p]

\* Result<(), CreateDefaultFileError> of create_default_file; the stage tells
\* the variants apart: Serde*/TomlSer from serialising, StdIo from the rest
NotRun == [state |-> "NotRun", stage |-> ""]
CdfOk == [state |-> "Ok", stage |-> ""]
CdfErr(stage) == [state |-> "Err", stage |-> stage]

\* ---- codec ---------------------------------------------------------------
HasValue(line) == line[2] # Undef

\* to_string_pretty: one line per key that has a value, in field order
Encode(doc) ==
    SelectSeq([i \in 1..Len(FieldOrder) |-> <<FieldOrder[i], doc[FieldOrder[i]]>>],
              HasValue)

Parses(bytes) == \A i \in 1..Len(bytes) : bytes[i][1] \in Fields

Decode(bytes) ==
    [f \in Fields |->
        IF \E i \in 1..Len(bytes) : bytes[i][1] = f
        THEN bytes[CHOOSE i \in 1..Len(bytes) : bytes[i][1] = f][2]
        ELSE Undef]

\* ---- providers (the data each source yields when joined) -----------------
DataOk(d) == [ok |-> TRUE, dict |-> d, err |-> NoErr]
DataErr(p) == [ok |-> FALSE, dict |-> EmptyDict,
               err |-> [kind |-> "Message", at |-> {p}]]

Default == [f \in Fields |-> DefaultVal]

\* a bug a file provider could have: a path at which no file exists is an error
FileDataRequired(fsys, p) ==
    IF ~fsys[p].exists \/ ~Parses(fsys[p].bytes) THEN {DataErr(p)}
    ELSE IF fsys[p].bytes = <<>> THEN {DataOk(EmptyDict), DataErr(p)}
    ELSE {DataOk(Decode(fsys[p].bytes))}

\* figment::providers::{Json,Toml,Yaml}::file(filepath): not `required`, so a
\* path at which no file exists yields an empty dict; a file that cannot be
\* parsed yields an error.  An empty file is an empty document for TOML and a
\* parse error for JSON.
FileData(fsys, p) ==
    IF ~fsys[p].exists THEN {DataOk(EmptyDict)}
    ELSE IF ~Parses(fsys[p].bytes) THEN {DataErr(p)}
    ELSE IF fsys[p].bytes = <<>> THEN {DataOk(EmptyDict), DataErr(p)}
    ELSE {DataOk(Decode(fsys[p].bytes))}

ProviderData(src, environment, fsys) ==
    CASE src.kind = "ConfigDefault" -> {DataOk(Default)}
      [] src.kind = "Env" -> {DataOk(environment)}
      [] src.kind = "File" -> FileData(fsys, src.path)

\* a bug: Figment::merge instead of join, the later source wins
MergeFig(figment, data) ==
    IF figment.ok /\ data.ok
    THEN DataOk([f \in Fields |-> IF data.dict[f] # Undef THEN data.dict[f]
                                  ELSE figment.dict[f]])
    ELSE [ok |-> FALSE, dict |-> EmptyDict,
          err |-> [kind |-> "Message", at |-> figment.err.at \cup data.err.at]]

\* Figment::join: keys already present keep their value; an error of the new
\* provider or of the figment so far makes the figment an error
JoinFig(figment, data) ==
    IF figment.ok /\ data.ok
    THEN DataOk([f \in Fields |-> IF figment.dict[f] # Undef THEN figment.dict[f]
                                  ELSE data.dict[f]])
    ELSE [ok |-> FALSE, dict |-> EmptyDict,
          err |-> [kind |-> "Message", at |-> figment.err.at \cup data.err.at]]

MinOf(S) == CHOOSE x \in S : \A y \in S : x <= y

\* Figment::extract: a provider error first, then the first value that does
\* not coerce to its field's type, then the first missing field
Extract(figment) ==
    LET bad == {f \in Fields : figment.dict[f] = BadVal}
        missing == {f \in Fields : figment.dict[f] = Undef}
    IN  IF ~figment.ok THEN figment.err
        ELSE IF bad # {} THEN [kind |-> "InvalidType", at |-> {MinOf(bad)}]
        ELSE IF missing # {} THEN [kind |-> "MissingField", at |-> {MinOf(missing)}]
        ELSE NoErr

\* ---- initial states ------------------------------------------------------
InitBytes == { <<Garbage>>, <<<<1, FileVal>>>>, <<<<1, FileVal>>, <<2, FileVal>>>> }
InitEnv == { EmptyDict, [f \in Fields |-> IF f = 1 THEN EnvVal ELSE Undef],
             [f \in Fields |-> EnvVal], [f \in Fields |-> IF f = 1 THEN BadVal ELSE Undef] }

InitCommon ==
    /\ env \in InitEnv
    /\ fs \in [Paths -> {NoFile} \cup {[exists |-> TRUE, bytes |-> b] : b \in InitBytes}]
    /\ dirs \in SUBSET Paths
    /\ \A p \in Paths : fs[p].exists => p \in dirs
    /\ sources \in SourceLists
    /\ config_file_default \in {None} \cup Paths
    /\ pc = [p \in Procs |-> "idle"]
    /\ idx = [p \in Procs |-> 1]
    /\ fig = [p \in Procs |-> DataOk(EmptyDict)]
    /\ e = [p \in Procs |-> NoErr]
    /\ file_content = [p \in Procs |-> <<>>]
    /\ res = [p \in Procs |-> NotRun]
    /\ out = [p \in Procs |-> NoOut]
    /\ snap = [p \in Procs |-> [fs |-> fs, dirs |-> dirs]]
    /\ ncalls = [p \in Procs |-> 0]
    /\ lastOut = [p \in Procs |-> NoOut]
    /\ leftover = [p \in Paths |-> NoFile]

Init == InitCommon /\ active = {1}
\* two threads racing on the same default file
InitConc == InitCommon /\ active = Procs /\ config_file_default # None

CallLimit == IF active = {1} THEN MaxCalls ELSE 1

\* ---- load_config ---------------------------------------------------------
Call(p) ==
    /\ p \in active /\ pc[p] = "idle" /\ ncalls[p] < CallLimit
    /\ pc' = [pc EXCEPT ![p] = "join"]
    /\ snap' = [snap EXCEPT ![p] = [fs |-> fs, dirs |-> dirs]]
    /\ UNCHANGED <<env, fs, dirs, sources, config_file_default, active, idx, fig, e,
                   file_content, res, out, ncalls, lastOut, leftover>>

\* one iteration of `for source in sources`
Join(p) ==
    /\ pc[p] = "join" /\ idx[p] <= Len(sources)
    /\ \E d \in ProviderData(sources[idx[p]], env, fs) :
           fig' = [fig EXCEPT ![p] = JoinFig(fig[p], d)]
    /\ idx' = [idx EXCEPT ![p] = idx[p] + 1]
    /\ UNCHANGED <<env, fs, dirs, sources, config_file_default, active, pc, e,
                   file_content, res, out, snap, ncalls, lastOut, leftover>>

\* a bug: no check that the file does not exist yet
BootstrapsNoExistsCheck(err, fallback, fsys) ==
    /\ err.kind = "MissingField"
    /\ fallback # None

\* a bug: any extraction failure starts the bootstrap
BootstrapsAnyError(err, fallback, fsys) ==
    /\ fallback # None
    /\ ~fsys[fallback].exists

\* the conditions of lines 114-127: MissingField, Some(default file), and no
\* file at its path
Bootstraps(err, fallback, fsys) ==
    /\ err.kind = "MissingField"
    /\ fallback # None
    /\ ~fsys[fallback].exists

\* match fig.extract()
ExtractStep(p) ==
    /\ pc[p] = "join" /\ idx[p] > Len(sources)
    /\ LET err == Extract(fig[p]) IN
         /\ e' = [e EXCEPT ![p] = err]
         /\ IF err = NoErr
            THEN /\ out' = [out EXCEPT ![p] = Ok(fig[p].dict)]
                 /\ pc' = [pc EXCEPT ![p] = "ret"]
            ELSE IF Bootstraps(err, config_file_default, fs)
            THEN /\ out' = out
                 /\ pc' = [pc EXCEPT ![p] = "serialize"]
            ELSE /\ out' = [out EXCEPT ![p] = Figment(err)]
                 /\ pc' = [pc EXCEPT ![p] = "ret"]
    /\ UNCHANGED <<env, fs, dirs, sources, config_file_default, active, idx, fig,
                   file_content, res, snap, ncalls, lastOut, leftover>>

\* a bug: the bootstrapper's failure is dropped and the extraction error kept
PropagateOriginal(p) ==
    /\ pc[p] = "cdf_ret"
    /\ out' = [out EXCEPT ![p] =
                  IF res[p].state = "Err" THEN Figment(e[p])
                  ELSE CreatedDefaultFile(config_file_default)]
    /\ pc' = [pc EXCEPT ![p] = "ret"]
    /\ UNCHANGED <<env, fs, dirs, sources, config_file_default, active, idx, fig, e,
                   file_content, res, snap, ncalls, lastOut, leftover>>

\* create_default_file::<T>(&s)?; return Err(Error::CreatedDefaultFile {filepath});
Propagate(p) ==
    /\ pc[p] = "cdf_ret"
    /\ out' = [out EXCEPT ![p] =
                  IF res[p].state = "Err"
                  THEN CreateDefaultFile(config_file_default, res[p].stage)
                  ELSE CreatedDefaultFile(config_file_default)]
    /\ pc' = [pc EXCEPT ![p] = "ret"]
    /\ UNCHANGED <<env, fs, dirs, sources, config_file_default, active, idx, fig, e,
                   file_content, res, snap, ncalls, lastOut, leftover>>

\* return Ok(config) / return Err(..): the call is over
Return(p) ==
    /\ pc[p] = "ret"
    /\ pc' = [pc EXCEPT ![p] = "idle"]
    /\ lastOut' = [lastOut EXCEPT ![p] = out[p]]
    /\ ncalls' = [ncalls EXCEPT ![p] = ncalls[p] + 1]
    /\ out' = [out EXCEPT ![p] = NoOut]
    /\ e' = [e EXCEPT ![p] = NoErr]
    /\ res' = [res EXCEPT ![p] = NotRun]
    /\ idx' = [idx EXCEPT ![p] = 1]
    /\ fig' = [fig EXCEPT ![p] = DataOk(EmptyDict)]
    /\ file_content' = [file_content EXCEPT ![p] = <<>>]
    /\ UNCHANGED <<env, fs, dirs, sources, config_file_default, active, snap,
                   leftover>>

\* ---- create_default_file -------------------------------------------------
\* `return Err(..)` / `?` inside create_default_file
Fail(p, stage) ==
    /\ res' = [res EXCEPT ![p] = CdfErr(stage)]
    /\ pc' = [pc EXCEPT ![p] = "cdf_ret"]

\* file_content = to_string_pretty(&T::default())?  Whether T::default() can be
\* serialised depends on T and the codec, so both outcomes are possible
Serialize(p) ==
    /\ pc[p] = "serialize"
    /\ \/ /\ file_content' = [file_content EXCEPT ![p] = Encode(Default)]
          /\ pc' = [pc EXCEPT ![p] = "create_dir_all"]
          /\ res' = res
       \/ /\ Fail(p, "serialize")
          /\ file_content' = file_content
    /\ UNCHANGED <<env, fs, dirs, sources, config_file_default, active, idx, fig, e,
                   out, snap, ncalls, lastOut, leftover>>

\* std::fs::create_dir_all(parent): succeeds when the directory exists, may fail
\* (permissions) when it has to be created
CreateDirAll(p) ==
    /\ pc[p] = "create_dir_all"
    /\ \/ /\ dirs' = dirs \cup {config_file_default}
          /\ pc' = [pc EXCEPT ![p] = "create_new"]
          /\ res' = res
       \/ /\ config_file_default \notin dirs
          /\ Fail(p, "create_dir_all")
          /\ dirs' = dirs
    /\ UNCHANGED <<env, fs, sources, config_file_default, active, idx, fig, e,
                   file_content, out, snap, ncalls, lastOut, leftover>>

\* a bug: std::fs::File::create, which truncates a file that exists
CreateTruncate(p) ==
    /\ pc[p] = "create_new"
    /\ \/ /\ fs' = [fs EXCEPT ![config_file_default] = [exists |-> TRUE, bytes |-> <<>>]]
          /\ pc' = [pc EXCEPT ![p] = "write_all"]
          /\ res' = res
       \/ /\ Fail(p, "create_new")
          /\ fs' = fs
    /\ UNCHANGED <<env, dirs, sources, config_file_default, active, idx, fig, e,
                   file_content, out, snap, ncalls, lastOut, leftover>>

\* std::fs::File::create_new(filepath): fails if the file exists, may fail for
\* other reasons, otherwise creates an empty file
CreateNew(p) ==
    /\ pc[p] = "create_new"
    /\ \/ /\ ~fs[config_file_default].exists
          /\ fs' = [fs EXCEPT ![config_file_default] = [exists |-> TRUE, bytes |-> <<>>]]
          /\ pc' = [pc EXCEPT ![p] = "write_all"]
          /\ res' = res
       \/ /\ Fail(p, "create_new")
          /\ fs' = fs
    /\ UNCHANGED <<env, dirs, sources, config_file_default, active, idx, fig, e,
                   file_content, out, snap, ncalls, lastOut, leftover>>

\* what a failed write_all can leave: a proper prefix, cut at or inside a line
PartialWrites(content) ==
    UNION { {SubSeq(content, 1, k), Append(SubSeq(content, 1, k), Garbage)} :
            k \in 0..(Len(content) - 1) }

\* a bug: the file is removed again when writing fails
WriteAllCleanup(p) ==
    /\ pc[p] = "write_all"
    /\ \/ /\ fs' = [fs EXCEPT ![config_file_default].bytes = @ \o file_content[p]]
          /\ res' = [res EXCEPT ![p] = CdfOk]
          /\ pc' = [pc EXCEPT ![p] = "cdf_ret"]
          /\ leftover' = leftover
       \/ /\ \E w \in PartialWrites(file_content[p]) :
                leftover' = [leftover EXCEPT ![config_file_default] =
                                [exists |-> TRUE, bytes |-> w]]
          /\ fs' = [fs EXCEPT ![config_file_default] = NoFile]
          /\ Fail(p, "write_all")
    /\ UNCHANGED <<env, dirs, sources, config_file_default, active, idx, fig, e,
                   file_content, out, snap, ncalls, lastOut>>

\* a bug: a single write(), which may write less than everything and succeed
WriteOnce(p) ==
    /\ pc[p] = "write_all"
    /\ \E w \in PartialWrites(file_content[p]) \cup {file_content[p]} :
          fs' = [fs EXCEPT ![config_file_default].bytes = @ \o w]
    /\ res' = [res EXCEPT ![p] = CdfOk]
    /\ pc' = [pc EXCEPT ![p] = "cdf_ret"]
    /\ UNCHANGED <<env, dirs, sources, config_file_default, active, idx, fig, e,
                   file_content, out, snap, ncalls, lastOut, leftover>>

\* file.write_all(file_content.as_bytes()), then return Ok(()); on failure part
\* of the content may have been written and the file stays
WriteAll(p) ==
    /\ pc[p] = "write_all"
    /\ \/ /\ fs' = [fs EXCEPT ![config_file_default].bytes = @ \o file_content[p]]
          /\ res' = [res EXCEPT ![p] = CdfOk]
          /\ pc' = [pc EXCEPT ![p] = "cdf_ret"]
          /\ leftover' = leftover
       \/ /\ \E w \in PartialWrites(file_content[p]) :
                fs' = [fs EXCEPT ![config_file_default].bytes = @ \o w]
          /\ Fail(p, "write_all")
          /\ leftover' = [leftover EXCEPT ![config_file_default] = fs'[config_file_default]]
    /\ UNCHANGED <<env, dirs, sources, config_file_default, active, idx, fig, e,
                   file_content, out, snap, ncalls, lastOut>>

Next ==
    \E p \in Procs :
        \/ Call(p)
        \/ Join(p)
        \/ ExtractStep(p)
        \/ Serialize(p)
        \/ CreateDirAll(p)
        \/ CreateNew(p)
        \/ WriteAll(p)
        \/ Propagate(p)
        \/ Return(p)

Spec == Init /\ [][Next]_vars
SpecConc == InitConc /\ [][Next]_vars

\* ==== properties ===========================================================
Returning(p) == p \in active /\ pc[p] = "ret"
FullDefaultFile == [exists |-> TRUE, bytes |-> Encode(Default)]
Other(p) == CHOOSE q \in Procs : q # p

\* the document a source contributes in the current state
Fragment(src) ==
    CASE src.kind = "ConfigDefault" -> Default
      [] src.kind = "Env" -> env
      [] src.kind = "File" ->
           IF fs[src.path].exists THEN Decode(fs[src.path].bytes) ELSE EmptyDict

\* the positions in `sources` of the sources that define field f
Definers(f) == {i \in 1..Len(sources) : Fragment(sources[i])[f] # Undef}

\* C1: when load_config returns a config, every field that two or more of the
\* listed sources define has the value of the earliest-listed source defining
\* it, whatever the kinds of the sources.
C1_EarliestSourceWins ==
    \A p \in Procs :
        (Returning(p) /\ out[p].kind = "Ok") =>
            \A f \in Fields :
                Cardinality(Definers(f)) >= 2 =>
                    out[p].config[f] = Fragment(sources[MinOf(Definers(f))])[f]

\* a config is returned in which a field defined by two sources of different
\* kinds, with different values, is resolved
C1_Witness ==
    \E p \in Procs :
        /\ Returning(p) /\ out[p].kind = "Ok"
        /\ \E f \in Fields : \E i, j \in Definers(f) :
              /\ i < j
              /\ sources[i].kind # sources[j].kind
              /\ Fragment(sources[i])[f] # Fragment(sources[j])[f]

\* the case of C2: extraction failed with MissingField, a default file is
\* configured and no file existed at its path
MissingNoFile(p) ==
    /\ Returning(p)
    /\ e[p].kind = "MissingField"
    /\ config_file_default # None
    /\ ~snap[p].fs[config_file_default].exists

\* C2: when extraction fails with MissingField, a default file is configured
\* and no file exists at its path, create_default_file is run and load_config
\* returns neither a config nor the MissingField failure; when
\* create_default_file succeeds, the file at the path holds the serialised
\* T::default() and load_config returns CreatedDefaultFile with exactly that path.
C2_CreatesDefaultFile ==
    \A p \in Procs :
        MissingNoFile(p) =>
            /\ res[p] # NotRun
            /\ out[p].kind \notin {"Ok", "Figment"}
            /\ res[p] = CdfOk =>
                  /\ out[p] = CreatedDefaultFile(config_file_default)
                  /\ fs[config_file_default] = FullDefaultFile

C2_Witness ==
    \E p \in Procs :
        /\ MissingNoFile(p)
        /\ out[p] = CreatedDefaultFile(config_file_default)
        /\ fs[config_file_default] = FullDefaultFile

\* the case of C3: extraction failed with MissingField and a file existed at
\* the configured default file's path
MissingFileExists(p) ==
    /\ Returning(p)
    /\ e[p].kind = "MissingField"
    /\ config_file_default # None
    /\ snap[p].fs[config_file_default].exists

\* C3: if a file, malformed or not, exists at the default file's path when
\* extraction fails with MissingField, load_config returns the extraction
\* failure, not CreatedDefaultFile, and the file's bytes are unchanged.
C3_NoOverwrite ==
    \A p \in Procs :
        MissingFileExists(p) =>
            /\ out[p] = Figment(e[p])
            /\ fs[config_file_default] = snap[p].fs[config_file_default]

C3_Witness ==
    \E p \in Procs :
        /\ MissingFileExists(p)
        /\ fs[config_file_default].bytes = <<Garbage>>
        /\ out[p].kind = "Figment"

\* the case of C4: extraction failed, and no default file is configured or
\* the failure is not MissingField
NoRecovery(p) ==
    /\ Returning(p)
    /\ e[p] # NoErr
    /\ (config_file_default = None \/ e[p].kind # "MissingField")

\* C4: if no default file is configured, or extraction fails with a kind other
\* than MissingField, load_config does not run create_default_file, creates or
\* writes no directory and no file, and returns the extraction error unchanged.
C4_NoBootstrap ==
    \A p \in Procs :
        NoRecovery(p) =>
            /\ out[p] = Figment(e[p])
            /\ res[p] = NotRun
            /\ fs = snap[p].fs
            /\ dirs = snap[p].dirs

\* a type mismatch with a configured default file that does not exist
C4_Witness ==
    \E p \in Procs :
        /\ NoRecovery(p)
        /\ e[p].kind = "InvalidType"
        /\ config_file_default # None
        /\ ~fs[config_file_default].exists

\* C5: of two calls in a row with the same arguments, when the first returned
\* CreatedDefaultFile the second returns a config or an extraction failure,
\* runs no create_default_file, and leaves the file as the first call wrote it.
C5_SecondCallKeepsFile ==
    \A p \in Procs :
        (Returning(p) /\ lastOut[p].kind = "CreatedDefaultFile") =>
            /\ out[p].kind \in {"Ok", "Figment"}
            /\ res[p] = NotRun
            /\ fs = snap[p].fs
            /\ fs[config_file_default] = FullDefaultFile

\* both results of the second call are seen; this one is the MissingField one
C5_Witness ==
    \E p \in Procs :
        /\ Returning(p) /\ lastOut[p].kind = "CreatedDefaultFile"
        /\ out[p].kind = "Figment" /\ out[p].err.kind = "MissingField"

\* both calls are over, and the default file did not exist when the first began
BothDone ==
    /\ active = Procs
    /\ \A p \in Procs : pc[p] = "idle" /\ ncalls[p] = 1
    /\ \E p \in Procs : ~snap[p].fs[config_file_default].exists

\* C6 as stated, for the runs in which one call returns CreatedDefaultFile: the
\* other call returns an IO failure of create_default_file or a config, and
\* nothing else.
C6_Original ==
    BothDone =>
        \A p \in Procs :
            lastOut[p].kind = "CreatedDefaultFile" =>
                lastOut[Other(p)].kind \in {"CreateDefaultFile", "Ok"}

\* C6: of two concurrent calls with the same default file, which does not
\* exist when the first begins, at most one returns CreatedDefaultFile, and
\* then the file holds exactly the serialised default; the other call returns
\* the IO failure of create_default_file, a config, or its extraction failure
\* (MissingField when its existence check or its read of the file came after
\* the winner's exclusive create).
C6_SingleWinner ==
    BothDone =>
        \A p \in Procs :
            lastOut[p].kind = "CreatedDefaultFile" =>
                /\ fs[config_file_default] = FullDefaultFile
                /\ lastOut[Other(p)].kind \in {"CreateDefaultFile", "Ok", "Figment"}
                /\ lastOut[Other(p)].kind = "CreateDefaultFile" =>
                      lastOut[Other(p)].stage \in {"serialize", "create_dir_all",
                                                   "create_new"}

\* the loser lost the exclusive create
C6_Witness ==
    /\ BothDone
    /\ \E p \in Procs :
          /\ lastOut[p].kind = "CreatedDefaultFile"
          /\ lastOut[Other(p)].kind = "CreateDefaultFile"
          /\ lastOut[Other(p)].stage = "create_new"

\* the case of C7: the configured default file is also a listed source, and
\* no file existed at its path
ListedButAbsent(p) ==
    /\ Returning(p)
    /\ config_file_default # None
    /\ \E i \in 1..Len(sources) : sources[i] = File(config_file_default)
    /\ ~snap[p].fs[config_file_default].exists

C8_BootstrapFailureWins ==
    \A p \in Procs :
        (Returning(p) /\ res[p].state = "Err") =>
            /\ e[p].kind = "MissingField"
            /\ out[p] = CreateDefaultFile(config_file_default, res[p].stage)
            /\ out[p].err = NoErr

C8_Witness ==
    \E p \in Procs :
        /\ Returning(p) /\ res[p] = CdfErr("create_dir_all")
        /\ out[p].kind = "CreateDefaultFile"

\* the steps of create_default_file, in the order of the code
StepOrder == <<"serialize", "create_dir_all", "create_new", "write_all", "cdf_ret">>
StepIndex(s) == CHOOSE i \in 1..Len(StepOrder) : StepOrder[i] = s
InBootstrap(s) == \E i \in 1..Len(StepOrder) : StepOrder[i] = s

\* one step of thread p inside create_default_file
C9_Step(p) ==
    /\ (pc'[p] # pc[p] /\ InBootstrap(pc[p]) /\ pc[p] # "cdf_ret") =>
          \* the next step in order, or the return
          /\ InBootstrap(pc'[p])
          /\ \/ StepIndex(pc'[p]) = StepIndex(pc[p]) + 1
             \/ pc'[p] = "cdf_ret" /\ res'[p] = CdfErr(pc[p])
          \* a step that fails changes nothing but a failed write
          /\ (res'[p].state = "Err" /\ pc[p] # "write_all") => (fs' = fs /\ dirs' = dirs)
          \* only the exclusive create and the write touch the file
          /\ pc[p] \in {"serialize", "create_dir_all"} => fs' = fs
          /\ pc[p] = "serialize" => dirs' = dirs
          \* the exclusive create of a file that exists fails and writes nothing
          /\ (pc[p] = "create_new" /\ fs[config_file_default].exists) =>
                (res'[p] = CdfErr("create_new") /\ fs' = fs)
    \* after create_default_file has returned, the call changes nothing
    /\ (pc'[p] # pc[p] /\ pc[p] \in {"cdf_ret", "ret"}) => (fs' = fs /\ dirs' = dirs)

\* C9: create_default_file runs serialise, create directories, create the file
\* exclusively, write, in this order, and a step that fails is the last one: a
\* failed serialisation leaves the filesystem unchanged, a failed directory
\* creation creates no file, and an exclusive create that finds the file
\* existing writes nothing to it.
C9_StepsInOrder == [][\A p \in Procs : C9_Step(p)]_vars

\* a thread lost the exclusive create to the other one, whose file is complete
C9_Witness ==
    \E p \in Procs :
        /\ pc[p] = "cdf_ret" /\ res[p] = CdfErr("create_new")
        /\ lastOut[Other(p)].kind = "CreatedDefaultFile"
        /\ fs[config_file_default] = FullDefaultFile

\* C10: if the exclusive create succeeds and the write fails, load_config
\* returns the IO failure and the empty or partly written file stays; from
\* then on the file is never changed, and a later call whose extraction fails
\* with MissingField returns that failure without running create_default_file.
C10_PartialFileStays ==
    /\ \A q \in Paths : leftover[q].exists => fs[q] = leftover[q]
    /\ \A p \in Procs :
          Returning(p) =>
              /\ res[p] = CdfErr("write_all") =>
                    /\ out[p] = CreateDefaultFile(config_file_default, "write_all")
                    /\ fs[config_file_default].exists
                    /\ fs[config_file_default] # FullDefaultFile
                    /\ leftover[config_file_default] = fs[config_file_default]
              /\ ( /\ config_file_default # None
                   /\ leftover[config_file_default].exists
                   /\ res[p] # CdfErr("write_all")
                   /\ e[p].kind = "MissingField" ) =>
                    /\ out[p] = Figment(e[p])
                    /\ res[p] = NotRun

\* a later call meets the file a failed write left and returns MissingField
C10_Witness ==
    \E p \in Procs :
        /\ Returning(p) /\ ncalls[p] >= 1
        /\ config_file_default # None
        /\ leftover[config_file_default].exists
        /\ lastOut[p] = CreateDefaultFile(config_file_default, "write_all")
        /\ out[p].kind = "Figment" /\ out[p].err.kind = "MissingField"

====
